---- MODULE Spec2Model ----
(***************************************************************************)
(* A model of jurigged's hot-restart retry loop (hot_restart_utils.py)     *)
(* and of its debounced file-watch / refresh pipeline (live.py).           *)
(*                                                                         *)
(* Six specifications share the module:                                    *)
(*   Spec       concurrent invocations of wrapped callables                *)
(*   SpecWatch  JuriggedHandler events, debounce timers, Watcher.refresh   *)
(*   SpecRefresh  successive calls of Watcher.refresh on one thread        *)
(*   SpecHandler  one JuriggedHandler and the events dispatched to it      *)
(*   SpecWrap   hot_restart_wrap applied to callables                      *)
(*   SpecTrace  _create_undead_traceback applied to bounded inputs         *)
(***************************************************************************)
EXTENDS Integers, Sequences, FiniteSets, TLC

VARIABLES
    \* ---- hot_restart_utils.py: process globals and invocations
    watch_instance,     \* live.py global watch_instance: "None" or "W"
    EXIT_THIS_FRAME,    \* module global written by every wrapper entry
    DEBUGGER,           \* module global chosen at import time
    dep_available,      \* whether the backend's module can be imported / is attached
    inv,                \* per thread: the frame of one invocation of a wrapped callable
    \* ---- live.py: Watcher.refresh
    last_refresh,       \* the most recent execution of Watcher.refresh
    refresh_log,        \* the executions of Watcher.refresh on one thread, in order
    refresher,          \* that thread: "running" or "crashed"
    \* ---- live.py: Watcher, JuriggedHandler, threading.Timer
    now,                \* the clock, in ticks
    debounce,           \* Watcher.debounce, in ticks (0: refresh synchronously)
    observer,           \* the observer thread: "running", "stopped" or "crashed"
    fs_mtime,           \* os.path.getmtime of every file
    handler,            \* per watched file: the JuriggedHandler's fields
    timers,             \* every threading.Timer created so far
    dispatched,         \* the last event the observer thread dispatched, and to which handler
    \* ---- hot_restart_utils.py: hot_restart_wrap
    objs,               \* the callables and classes of the process, by identity
    last_wrap,          \* the most recent call of hot_restart_wrap
    \* ---- hot_restart_utils.py: _create_undead_traceback
    tb_heap,            \* the traceback objects, by identity (0 is None)
    trace_in,           \* the arguments of the call
    trace_out           \* what the call returned

wrapVars == <<watch_instance, EXIT_THIS_FRAME, DEBUGGER, dep_available, inv>>
refreshVars == <<last_refresh, refresh_log, refresher>>
watchVars == <<now, debounce, observer, fs_mtime, handler, timers, dispatched>>
objVars == <<objs, last_wrap>>
traceVars == <<tb_heap, trace_in, trace_out>>
vars == <<wrapVars, refreshVars, watchVars, objVars, traceVars>>

----------------------------------------------------------------------------
(* Bounds *)

MaxAttempts == 2
MaxVal == 2
MaxTime == 5
MaxWrites == 3
MaxTimers == 3
DebounceTicks == 2

MaxRefreshes == 2
MaxObjects == 5
MaxDead == 2
MaxLive == 2
MaxLine == 2

\* The application threads that call wrapped callables: two, the least number
\* with which invocations overlap.
Threads == {"T1", "T2"}
Values == 1..MaxVal

None == "None"

----------------------------------------------------------------------------
(* Watcher.refresh (live.py 114-125)                                       *)

\* What a subscriber or the patch operation does when called.
StepOutcomes == {"ok", "raise"}

\* The record of one execution: the path, the kind of thread that ran it,
\* whether the patch operation was invoked, whether an exception left refresh.
NoRefresh == [path |-> None, by |-> None, patched |-> FALSE, raised |-> FALSE]

\* A try block that goes on to postrun.emit after cf.refresh raised.
RefreshTry_PostrunAnyway(pre, patch, post) ==
    IF pre = "raise" THEN <<"prerun", "exc">>
    ELSE IF patch = "raise" THEN <<"prerun", "patch", "postrun", "exc">>
    ELSE IF post = "raise" THEN <<"prerun", "patch", "postrun", "exc">>
    ELSE <<"prerun", "patch", "postrun">>

\* The body of the try block: prerun.emit, cf.refresh, postrun.emit, cut short
\* by the first call that raises.
RefreshTry(pre, patch, post) ==
    IF pre = "raise" THEN <<"prerun", "exc">>
    ELSE IF patch = "raise" THEN <<"prerun", "patch", "exc">>
    ELSE IF post = "raise" THEN <<"prerun", "patch", "postrun", "exc">>
    ELSE <<"prerun", "patch", "postrun">>

\* A refresh whose try block covers only the patch operation, not the hooks.
WatcherRefresh_PatchOnly(path, cf, pre, patch, post) ==
    IF cf # None
    THEN IF pre = "raise" THEN [events |-> <<"prerun">>, raised |-> TRUE]
         ELSE IF patch = "raise"
         THEN [events |-> <<"prerun", "patch", "log_exc">>, raised |-> FALSE]
         ELSE IF post = "raise"
         THEN [events |-> <<"prerun", "patch", "postrun">>, raised |-> TRUE]
         ELSE [events |-> <<"prerun", "patch", "postrun">>, raised |-> FALSE]
    ELSE [events |-> <<"log_miss">>, raised |-> FALSE]

\* A refresh that raises when the registry does not know the path.
WatcherRefresh_MissRaises(path, cf, pre, patch, post) ==
    IF cf # None
    THEN LET body == RefreshTry(pre, patch, post)
             n == Len(body)
         IN  IF body[n] = "exc"
             THEN [events |-> SubSeq(body, 1, n - 1) \o <<"log_exc">>, raised |-> FALSE]
             ELSE [events |-> body, raised |-> FALSE]
    ELSE [events |-> <<>>, raised |-> TRUE]

\* A refresh whose try block has no except clause.
WatcherRefresh_NoExcept(path, cf, pre, patch, post) ==
    IF cf # None
    THEN LET body == RefreshTry(pre, patch, post)
             n == Len(body)
         IN  IF body[n] = "exc"
             THEN [events |-> SubSeq(body, 1, n - 1), raised |-> TRUE]
             ELSE [events |-> body, raised |-> FALSE]
    ELSE [events |-> <<"log_miss">>, raised |-> FALSE]

\* Watcher.refresh(path): the events it produced, in order, and whether an
\* exception left it.  "log_exc" and "log_miss" are calls of registry.log.
WatcherRefresh(path, cf, pre, patch, post) ==
    IF cf # None
    THEN LET body == RefreshTry(pre, patch, post)
             n == Len(body)
         IN  IF body[n] = "exc"
             THEN [events |-> SubSeq(body, 1, n - 1) \o <<"log_exc">>, raised |-> FALSE]
             ELSE [events |-> body, raised |-> FALSE]
    ELSE [events |-> <<"log_miss">>, raised |-> FALSE]

RefreshRecord(path, by, cf, pre, patch, post) ==
    LET r == WatcherRefresh(path, cf, pre, patch, post)
    IN  [path |-> path, by |-> by,
         patched |-> \E i \in 1..Len(r.events) : r.events[i] = "patch",
         raised |-> r.raised]

----------------------------------------------------------------------------
(* hot_restart_wrap (hot_restart_utils.py 103-201)                         *)

\* Exception classes the target may raise, and those the wrapper itself raises.
TargetExceptions == {"StopIteration", "KeyError", "ValueError", "KeyboardInterrupt"}

\* An except clause that catches every exception class (except BaseException).
IsException_All(cls) == TRUE

\* KeyboardInterrupt derives from BaseException, not from Exception.
IsException(cls) == cls # "KeyboardInterrupt"

\* The wrapped callables of the process: the variant hot_restart_wrap chose
\* (line 126) and the keyword arguments it was given (lines 106-107).
WrappedCallables ==
    { [is_async |-> a, propagated_exceptions |-> p, propagate_keyboard_interrupt |-> k] :
        a \in BOOLEAN,
        p \in {{"StopIteration"}, {"StopIteration", "KeyError"}},
        k \in BOOLEAN }

module_file_path == "mod.py"

\* What the caller of the wrapper sees: a returned value (0 stands for None), or
\* the exception instance raised by attempt att of the target (att = 0: raised
\* by the wrapper's own code).
NoResult == [kind |-> "none", val |-> 0, cls |-> None, att |-> 0]
Returned(v) == [kind |-> "return", val |-> v, cls |-> None, att |-> 0]
Raised(cls, att) == [kind |-> "raise", val |-> 0, cls |-> cls, att |-> att]

\* One execution of the target: it returned val, or raised an instance of cls.
TargetReturned(v) == [out |-> "ret", val |-> v, cls |-> None]
TargetRaised(cls) == [out |-> "exc", val |-> 0, cls |-> cls]

\* The frame of one invocation: the wrapper's locals, and what the properties
\* read: the outcomes of the target so far (hist), the debugger sessions and
\* refresh calls so far, the result, and whether another invocation entered
\* its wrapper while this one was in its loop (met).
IdleFrame ==
    [pc |-> "idle", callee |-> None, watch_instance |-> None, restart_count |-> 0,
     hist |-> <<>>, sessions |-> 0, refreshes |-> 0, result |-> NoResult,
     met |-> FALSE]

Active(f) == f.pc \notin {"idle", "done"}

\* The frames after thread t entered the wrapper of w.
Entered(t, w) ==
    [u \in Threads |->
        IF u = t
        THEN [IdleFrame EXCEPT !.pc = "loop", !.callee = w,
                               !.watch_instance = watch_instance,
                               !.met = \E x \in Threads \ {t} : Active(inv[x])]
        ELSE IF Active(inv[u]) THEN [inv[u] EXCEPT !.met = TRUE] ELSE inv[u]]

\* A wrapper whose isinstance test never matches.
IsPropagated_Never(cls, propagated_exceptions) == FALSE

\* isinstance(e, propagated_exceptions), lines 142 and 181
IsPropagated(cls, propagated_exceptions) == cls \in propagated_exceptions

\* The free variable wrapped_async of hot_restart_wrap is bound only when the
\* coroutine branch (line 130) ran: the synchronous wrapper reads it unbound at
\* line 189.
WrapperFunctionBound(w) == w.is_async

\* _start_post_mortem (233-282): "session" for a backend session, "breakpoint"
\* for the breakpoint() fallback, "ImportError" when the import raises.
StartPostMortem(debugger, available) ==
    CASE debugger = "pdb" -> "session"
      [] debugger = "pydevd" -> IF available THEN "session" ELSE "breakpoint"
      [] debugger = "pudb" -> IF available THEN "session" ELSE "ImportError"
      [] OTHER -> "breakpoint"

\* A wrapper entry that raises the shared flag instead of clearing it.
EnterFrame_RaisesFlag(t, w) ==
    /\ inv' = Entered(t, w)
    /\ EXIT_THIS_FRAME' = TRUE

\* Lines 131-134 / 170-173: entry of the wrapper.
EnterFrame(t, w) ==
    /\ inv' = Entered(t, w)
    /\ EXIT_THIS_FRAME' = FALSE

Invoke(t) ==
    /\ inv[t].pc = "idle"
    /\ \E w \in WrappedCallables : EnterFrame(t, w)
    /\ UNCHANGED <<watch_instance, DEBUGGER, dep_available, refreshVars, watchVars, objVars, traceVars>>

\* Lines 135 / 174: the loop test.  Falling out of the loop returns None.
LoopTest(t) ==
    /\ inv[t].pc = "loop"
    /\ Len(inv[t].hist) < MaxAttempts
    /\ IF ~EXIT_THIS_FRAME
       THEN inv' = [inv EXCEPT ![t].pc = "call"]
       ELSE inv' = [inv EXCEPT ![t].pc = "done", ![t].result = Returned(0)]
    /\ UNCHANGED <<watch_instance, EXIT_THIS_FRAME, DEBUGGER, dep_available, refreshVars, watchVars, objVars, traceVars>>

\* Lines 139-140 / 178-179: the target returns.
TargetReturns(t) ==
    /\ inv[t].pc = "call"
    /\ \E v \in Values :
         inv' = [inv EXCEPT ![t].pc = "done",
                            ![t].hist = Append(@, TargetReturned(v)),
                            ![t].result = Returned(v)]
    /\ UNCHANGED <<watch_instance, EXIT_THIS_FRAME, DEBUGGER, dep_available, refreshVars, watchVars, objVars, traceVars>>

\* Lines 141-155 / 180-194: the frame after the target raised cls on this attempt.
AfterRaise(f, cls) ==
    LET att == Len(f.hist) + 1
        w == f.callee
        h == Append(f.hist, TargetRaised(cls))
    IN  IF ~IsException(cls)
        THEN [f EXCEPT !.pc = "done", !.hist = h, !.result = Raised(cls, att)]
        ELSE IF IsPropagated(cls, w.propagated_exceptions)
        THEN [f EXCEPT !.pc = "done", !.hist = h, !.result = Raised(cls, att)]
        ELSE IF w.propagate_keyboard_interrupt /\ cls = "KeyboardInterrupt"
        THEN [f EXCEPT !.pc = "done", !.hist = h, !.result = Raised(cls, att)]
        ELSE IF ~WrapperFunctionBound(w)
        THEN [f EXCEPT !.pc = "done", !.hist = h, !.result = Raised("NameError", 0)]
        ELSE IF StartPostMortem(DEBUGGER, dep_available) = "ImportError"
        THEN [f EXCEPT !.pc = "done", !.hist = h, !.result = Raised("ImportError", 0)]
        ELSE [f EXCEPT !.pc = "debug", !.hist = h, !.sessions = @ + 1]

TargetRaises(t) ==
    /\ inv[t].pc = "call"
    /\ \E cls \in TargetExceptions : inv' = [inv EXCEPT ![t] = AfterRaise(inv[t], cls)]
    /\ UNCHANGED <<watch_instance, EXIT_THIS_FRAME, DEBUGGER, dep_available, refreshVars, watchVars, objVars, traceVars>>

\* The operator ends the post-mortem session (or continues from the breakpoint).
SessionEnds(t) ==
    /\ inv[t].pc = "debug"
    /\ inv' = [inv EXCEPT ![t].pc = "refresh"]
    /\ UNCHANGED <<watch_instance, EXIT_THIS_FRAME, DEBUGGER, dep_available, refreshVars, watchVars, objVars, traceVars>>

\* Lines 158-160 / 197-199: watch_instance.refresh(module_file_path), then
\* restart_count += 1.  The attribute lookup on None raises AttributeError.
PostSessionRefresh(t) ==
    /\ inv[t].pc = "refresh"
    /\ IF inv[t].watch_instance = None
       THEN /\ inv' = [inv EXCEPT ![t].pc = "done",
                                  ![t].result = Raised("AttributeError", 0)]
            /\ UNCHANGED refreshVars
       ELSE \E cf \in {None, "cf"}, pre, patch, post \in StepOutcomes :
              LET r == RefreshRecord(module_file_path, "app", cf, pre, patch, post)
              IN  /\ last_refresh' = r
                  /\ UNCHANGED <<refresh_log, refresher>>
                  /\ inv' = [inv EXCEPT ![t].pc = IF r.raised THEN "done" ELSE "loop",
                                        ![t].result = IF r.raised
                                                      THEN Raised("RefreshError", 0)
                                                      ELSE @,
                                        ![t].refreshes = @ + 1,
                                        ![t].restart_count = IF r.raised THEN @ ELSE @ + 1]
    /\ UNCHANGED <<watch_instance, EXIT_THIS_FRAME, DEBUGGER, dep_available, watchVars, objVars, traceVars>>

\* live.py 273-275, called once by cli() (line 408).
set_watch_instance ==
    /\ watch_instance = None
    /\ watch_instance' = "W"
    /\ UNCHANGED <<EXIT_THIS_FRAME, DEBUGGER, dep_available, inv, refreshVars, watchVars, objVars, traceVars>>

----------------------------------------------------------------------------
(* JuriggedHandler and its debounce timers (live.py 141-176)               *)

\* The files the watcher was asked to watch (on_prepare, line 111), as given.
Filenames == {"a.py", "./b.py"}

\* os.path.normpath, line 145, on these names.
NormPath(filename) == IF filename = "./b.py" THEN "b.py" ELSE filename

\* The paths a filesystem event may carry.
SrcPaths == {"a.py", "b.py", "./b.py"}

\* The files os.path.getmtime is asked about: the normalized watched names.
WatchedPaths == {NormPath(f) : f \in Filenames}

\* The event argument of on_modified (line 153) and the handler that received
\* it; qualified records whether it passed the tests of lines 154 and 158.
NoEvent == [h |-> None, src_path |-> None, qualified |-> FALSE]

Dispatch(h, src_path) ==
    [h |-> h, src_path |-> src_path,
     qualified |-> /\ src_path = handler[h].normalized_filename
                   /\ fs_mtime[src_path] # handler[h].mtime]

\* JuriggedHandler.__init__ (142-147), with the bookkeeping the debounce
\* property reads: the time of the last qualifying event (-1: none yet), the
\* number of refreshes timers started since, and when the last of them started.
NewHandler(filename) ==
    [filename |-> filename, normalized_filename |-> NormPath(filename),
     mtime |-> 0, timer |-> 0,
     last_event |-> -1, fired |-> 0, fired_at |-> -1]

\* threading.Timer(interval, function): waiting until its deadline; cancelled
\* once cancel() set its finished event before it woke; firing while it runs
\* function; finished afterwards.
NewTimer(h, interval) ==
    [handler |-> h, deadline |-> now + interval, st |-> "waiting"]

\* A timer that was started and has neither fired nor been cancelled.
Pending(i) == timers[i].st = "waiting"

\* Timer.cancel(): sets the finished event, which only a waiting timer reads.
Cancel(ts, i) ==
    IF i # 0 /\ ts[i].st = "waiting" THEN [ts EXCEPT ![i].st = "cancelled"] ELSE ts

\* Lines 160-166: the debounce branch of on_modified.
Reschedule(h) ==
    /\ Len(timers) < MaxTimers
    /\ timers' = Append(Cancel(timers, handler[h].timer), NewTimer(h, debounce))
    /\ handler' = [handler EXCEPT ![h].mtime = fs_mtime[handler[h].normalized_filename],
                                  ![h].timer = Len(timers) + 1,
                                  ![h].last_event = now,
                                  ![h].fired = 0]
    /\ UNCHANGED observer

\* Line 168: _refresh() called on the observer thread.
RefreshNow(h) ==
    \E cf \in {None, "cf"}, pre, patch, post \in StepOutcomes :
        LET r == WatcherRefresh(handler[h].filename, cf, pre, patch, post)
        IN  /\ handler' = [handler EXCEPT
                             ![h].mtime = fs_mtime[handler[h].normalized_filename],
                             ![h].timer = IF r.raised THEN @ ELSE 0,
                             ![h].last_event = now]
            /\ observer' = IF r.raised THEN "crashed" ELSE observer
            /\ UNCHANGED timers

\* An on_modified that does not compare the modification time (line 158).
on_modified_NoMtimeCheck(h, src_path) ==
    /\ observer = "running"
    /\ dispatched' = Dispatch(h, src_path)
    /\ IF src_path = handler[h].normalized_filename
       THEN IF debounce # 0 THEN Reschedule(h) ELSE RefreshNow(h)
       ELSE UNCHANGED <<handler, timers, observer>>
    /\ UNCHANGED <<now, debounce, fs_mtime, refreshVars, wrapVars, objVars, traceVars>>

\* on_modified / on_created (153-170), dispatched by the observer thread.
on_modified(h, src_path) ==
    /\ observer = "running"
    /\ dispatched' = Dispatch(h, src_path)
    /\ IF src_path = handler[h].normalized_filename
          /\ fs_mtime[src_path] # handler[h].mtime
       THEN IF debounce # 0 THEN Reschedule(h) ELSE RefreshNow(h)
       ELSE UNCHANGED <<handler, timers, observer>>
    /\ UNCHANGED <<now, debounce, fs_mtime, refreshVars, wrapVars, objVars, traceVars>>

\* Timer.run: the wait timed out and the finished event is not set, so the
\* timer calls _refresh, whose first statement (line 150) is Watcher.refresh.
TimerFires(i) ==
    /\ i \in 1..Len(timers)
    /\ Pending(i)
    /\ now >= timers[i].deadline
    /\ \E cf \in {None, "cf"}, pre, patch, post \in StepOutcomes :
         LET h == timers[i].handler
             r == WatcherRefresh(handler[h].filename, cf, pre, patch, post)
         IN  /\ timers' = [timers EXCEPT ![i].st = IF r.raised THEN "finished" ELSE "firing"]
             /\ handler' = [handler EXCEPT ![h].fired = @ + 1, ![h].fired_at = now]
    /\ UNCHANGED <<dispatched, now, debounce, observer, fs_mtime, refreshVars, wrapVars, objVars, traceVars>>

\* Line 151: self.timer = None, the last statement of _refresh.
TimerClears(i) ==
    /\ i \in 1..Len(timers)
    /\ timers[i].st = "firing"
    /\ timers' = [timers EXCEPT ![i].st = "finished"]
    /\ handler' = [handler EXCEPT ![timers[i].handler].timer = 0]
    /\ UNCHANGED <<dispatched, now, debounce, observer, fs_mtime, refreshVars, wrapVars, objVars, traceVars>>

\* A writer changes a watched file.
FileWrite(src_path) ==
    /\ fs_mtime[src_path] < MaxWrites
    /\ fs_mtime' = [fs_mtime EXCEPT ![src_path] = @ + 1]
    /\ UNCHANGED <<dispatched, now, debounce, observer, handler, timers, refreshVars, wrapVars, objVars, traceVars>>

\* Time passes.  A timer wakes when its interval has elapsed.
Tick ==
    /\ now < MaxTime
    /\ \A i \in 1..Len(timers) : Pending(i) => now < timers[i].deadline
    /\ now' = now + 1
    /\ UNCHANGED <<dispatched, debounce, observer, fs_mtime, handler, timers, refreshVars, wrapVars, objVars, traceVars>>

\* Watcher.stop (131-133): observer.stop().
Stop ==
    /\ observer = "running"
    /\ observer' = "stopped"
    /\ UNCHANGED <<dispatched, now, debounce, fs_mtime, handler, timers, refreshVars, wrapVars, objVars, traceVars>>

\* One thread of the watcher (the observer thread when debounce is 0) calls
\* Watcher.refresh again and again; an exception that leaves refresh ends it.
Refresh(path) ==
    /\ refresher = "running"
    /\ Len(refresh_log) < MaxRefreshes
    /\ \E cf \in {None, "cf"}, pre, patch, post \in StepOutcomes :
         /\ cf = None => (pre = "ok" /\ patch = "ok" /\ post = "ok")
         /\ LET r == WatcherRefresh(path, cf, pre, patch, post)
            IN  /\ refresh_log' = Append(refresh_log,
                                         [path |-> path, cf |-> cf, pre |-> pre,
                                          patch |-> patch, post |-> post,
                                          events |-> r.events, raised |-> r.raised])
                /\ last_refresh' = RefreshRecord(path, "observer", cf, pre, patch, post)
                /\ refresher' = IF r.raised THEN "crashed" ELSE refresher
    /\ UNCHANGED <<watchVars, wrapVars, objVars, traceVars>>

----------------------------------------------------------------------------
(* hot_restart_wrap as an operation on callables (103-126, 162-163, 200-201) *)

\* What hot_restart_wrap can be given: a plain function, a coroutine function,
\* a class, or nothing (func=None, the decorator-with-arguments form).
BaseKinds == {"function", "coroutine", "class"}

\* A value of the process.  marked: its _hot_restart_already_wrapped attribute;
\* wraps: the identity of the callable it wraps (0: none); loops: the retry
\* loops a call goes through; mark_sets: the setattr calls that set the marker.
BaseObject(kind) ==
    [kind |-> kind, marked |-> FALSE, wraps |-> 0, loops |-> 0, mark_sets |-> 0]

NoWrap == [func |-> 0, result |-> 0, outcome |-> "none"]

\* A test of the marker that never finds it.
AlreadyWrapped_Never(o) == FALSE

\* getattr(func, HOT_RESTART_ALREADY_WRAPPED, False), line 121
AlreadyWrapped(o) == o.marked

\* Lines 129-130 / 168-169 and 162 / 200: the wrapper built around objs[func].
\* functools.wraps copies func's attributes; setattr then sets the marker.
NewWrapper(func) ==
    [kind |-> IF objs[func].kind = "coroutine" THEN "wrapped_async" ELSE "wrapped",
     marked |-> TRUE,
     wraps |-> func,
     loops |-> objs[func].loops + 1,
     mark_sets |-> 1]

\* hot_restart_wrap(func); func = 0 stands for func=None.
hot_restart_wrap(func) ==
    /\ func \in 0..Len(objs)
    /\ IF func # 0 /\ objs[func].kind = "class"
       THEN /\ last_wrap' = [func |-> func, result |-> 0, outcome |-> "ValueError"]
            /\ UNCHANGED objs
       ELSE IF func = 0
       THEN /\ last_wrap' = [func |-> func, result |-> 0, outcome |-> "partial"]
            /\ UNCHANGED objs
       ELSE IF AlreadyWrapped(objs[func])
       THEN /\ last_wrap' = [func |-> func, result |-> func, outcome |-> "same"]
            /\ UNCHANGED objs
       ELSE /\ Len(objs) < MaxObjects
            /\ objs' = Append(objs, NewWrapper(func))
            /\ last_wrap' = [func |-> func, result |-> Len(objs) + 1, outcome |-> "new"]
    /\ UNCHANGED <<wrapVars, refreshVars, watchVars, traceVars>>

----------------------------------------------------------------------------
(* _create_undead_traceback (hot_restart_utils.py 203-232)                 *)

\* Code objects: the wrapper's own (wrapper_function.__code__) and two others.
WrapperCode == "wrapped"
Codes == {WrapperCode, "f", "g"}
Lines == 1..MaxLine

\* A frame object, and a traceback object pointing at one.
Frames == [f_code : Codes, f_lineno : Lines]
Traceback(frame, lineno, next) ==
    [tb_frame |-> frame, tb_lineno |-> lineno, tb_next |-> next]

\* The traceback of a caught exception as the interpreter links it: object i
\* is followed by object i + 1, and the last one by None.
DeadHeap(dead) ==
    [i \in 1..Len(dead) |->
        Traceback(dead[i], dead[i].f_lineno, IF i < Len(dead) THEN i + 1 ELSE 0)]

\* Lines 206-210: walk to the last traceback object, counting the steps.
RECURSIVE WalkDead(_, _, _)
WalkDead(heap, dead_tb, num_dead_frames) ==
    IF dead_tb # 0 /\ heap[dead_tb].tb_next # 0
    THEN WalkDead(heap, heap[dead_tb].tb_next, num_dead_frames + 1)
    ELSE [dead_tb |-> dead_tb, num_dead_frames |-> num_dead_frames]

Max(a, b) == IF a >= b THEN a ELSE b

\* A count that starts at 0: the number of traceback objects minus one.
NumDeadFrames_FromZero(heap, exc_tb, wrapper_code) ==
    LET w == WalkDead(heap, exc_tb, 0)
        n == Max(0, w.num_dead_frames)
    IN  IF w.dead_tb # 0 /\ heap[w.dead_tb].tb_frame.f_code = wrapper_code
        THEN n + 1
        ELSE n

\* Lines 206-216
NumDeadFrames(heap, exc_tb, wrapper_code) ==
    LET w == WalkDead(heap, exc_tb, -1)
        n == Max(0, w.num_dead_frames)
    IN  IF w.dead_tb # 0 /\ heap[w.dead_tb].tb_frame.f_code = wrapper_code
        THEN n + 1
        ELSE n

\* A test that elides no frame.
IsWrapperFrame_Never(frame, wrapper_code) == FALSE

\* The negation of the test of line 221.
IsWrapperFrame(frame, wrapper_code) == frame.f_code = wrapper_code

\* Lines 217-231: frames[i] is the i-th frame from current_frame along f_back.
\* Every frame that is kept gets a new traceback object in front of prev_tb.
RECURSIVE ReviveFrames(_, _, _, _, _)
ReviveFrames(heap, prev_tb, frames, i, wrapper_code) ==
    IF i > Len(frames)
    THEN [heap |-> heap, tb |-> prev_tb]
    ELSE IF ~IsWrapperFrame(frames[i], wrapper_code)
    THEN ReviveFrames(Append(heap, Traceback(frames[i], frames[i].f_lineno, prev_tb)),
                      Len(heap) + 1, frames, i + 1, wrapper_code)
    ELSE ReviveFrames(heap, prev_tb, frames, i + 1, wrapper_code)

create_undead_traceback ==
    /\ ~trace_out.done
    /\ LET r == ReviveFrames(tb_heap, trace_in.exc_tb, trace_in.frames, 1,
                             trace_in.wrapper_code)
       IN  /\ tb_heap' = r.heap
           /\ trace_out' = [done |-> TRUE, tb |-> r.tb,
                            num_dead_frames |-> NumDeadFrames(tb_heap, trace_in.exc_tb,
                                                              trace_in.wrapper_code)]
    /\ UNCHANGED <<trace_in, wrapVars, refreshVars, watchVars, objVars>>

----------------------------------------------------------------------------
(* The specifications                                                      *)

InitRefresh ==
    /\ last_refresh = NoRefresh
    /\ refresh_log = <<>>
    /\ refresher = "running"

WatchIdle ==
    /\ now = 0
    /\ debounce = 0
    /\ observer = "stopped"
    /\ fs_mtime = [p \in WatchedPaths |-> 1]
    /\ handler = [f \in Filenames |-> NewHandler(f)]
    /\ timers = <<>>
    /\ dispatched = NoEvent

WrapperIdle ==
    /\ watch_instance = None
    /\ EXIT_THIS_FRAME = FALSE
    /\ DEBUGGER = "pdb"
    /\ dep_available = TRUE
    /\ inv = [t \in Threads |-> IdleFrame]

WrapIdle ==
    /\ objs = <<>>
    /\ last_wrap = NoWrap

TraceIdle ==
    /\ tb_heap = <<>>
    /\ trace_in = [exc_tb |-> 0, dead |-> <<>>, frames |-> <<>>, wrapper_code |-> WrapperCode]
    /\ trace_out = [done |-> FALSE, tb |-> 0, num_dead_frames |-> 0]

\* Watcher.__init__ (92-106), on_prepare for every file, Watcher.start.
InitWatch ==
    /\ now = 0
    /\ debounce \in {0, DebounceTicks}
    /\ observer = "running"
    /\ fs_mtime = [p \in WatchedPaths |-> 1]
    /\ handler = [f \in Filenames |-> NewHandler(f)]
    /\ timers = <<>>
    /\ dispatched = NoEvent
    /\ InitRefresh
    /\ WrapperIdle
    /\ WrapIdle
    /\ TraceIdle

NextWatch ==
    \/ \E h \in Filenames, src_path \in SrcPaths : on_modified(h, src_path)
    \/ \E i \in 1..MaxTimers : TimerFires(i)
    \/ \E i \in 1..MaxTimers : TimerClears(i)
    \/ \E src_path \in WatchedPaths : FileWrite(src_path)
    \/ Tick
    \/ Stop

SpecWatch == InitWatch /\ [][NextWatch]_vars

\* One JuriggedHandler (the one of "./b.py") receiving the events of the
\* observer, for its own file under both spellings and for the other file.
WatchedFile == "./b.py"

NextHandler ==
    \/ \E src_path \in SrcPaths : on_modified(WatchedFile, src_path)
    \/ \E i \in 1..MaxTimers : TimerFires(i)
    \/ \E i \in 1..MaxTimers : TimerClears(i)
    \/ FileWrite(NormPath(WatchedFile))
    \/ Tick
    \/ Stop

SpecHandler == InitWatch /\ [][NextHandler]_vars

InitWrap ==
    /\ objs \in [1..2 -> {BaseObject(k) : k \in BaseKinds}]
    /\ last_wrap = NoWrap
    /\ WrapperIdle
    /\ InitRefresh
    /\ WatchIdle
    /\ TraceIdle

NextWrap == \E func \in 0..MaxObjects : hot_restart_wrap(func)

SpecWrap == InitWrap /\ [][NextWrap]_vars

\* An exception was caught: its traceback has at least one object.
InitTrace ==
    /\ \E n \in 1..MaxDead, m \in 0..MaxLive :
         \E dead \in [1..n -> Frames], frames \in [1..m -> Frames] :
            /\ tb_heap = DeadHeap(dead)
            /\ trace_in = [exc_tb |-> 1, dead |-> dead, frames |-> frames,
                           wrapper_code |-> WrapperCode]
    /\ trace_out = [done |-> FALSE, tb |-> 0, num_dead_frames |-> 0]
    /\ WrapperIdle
    /\ InitRefresh
    /\ WatchIdle
    /\ WrapIdle

NextTrace == create_undead_traceback

SpecTrace == InitTrace /\ [][NextTrace]_vars

InitWrapper ==
    /\ watch_instance \in {None, "W"}
    /\ EXIT_THIS_FRAME = FALSE
    /\ DEBUGGER \in {"pdb", "pydevd", "pudb"}
    /\ dep_available \in BOOLEAN
    /\ inv = [t \in Threads |-> IdleFrame]


InitRefreshing == InitRefresh /\ WatchIdle /\ WrapperIdle /\ WrapIdle /\ TraceIdle

NextRefresh == \E path \in Filenames \cup {module_file_path} : Refresh(path)

SpecRefresh == InitRefreshing /\ [][NextRefresh]_vars

Init == InitWrapper /\ InitRefresh /\ WatchIdle /\ WrapIdle /\ TraceIdle

Next ==
    \/ \E t \in Threads : Invoke(t)
    \/ \E t \in Threads : LoopTest(t)
    \/ \E t \in Threads : TargetReturns(t)
    \/ \E t \in Threads : TargetRaises(t)
    \/ \E t \in Threads : SessionEnds(t)
    \/ \E t \in Threads : PostSessionRefresh(t)
    \/ set_watch_instance

Spec == Init /\ [][Next]_vars

----------------------------------------------------------------------------
(* Properties of the retry loop                                            *)

\* The outcome of attempt i was an exception the wrapper does not propagate.
NonPropagatedFailure(f, i) ==
    /\ f.hist[i].out = "exc"
    /\ IsException(f.hist[i].cls)
    /\ f.hist[i].cls \notin f.callee.propagated_exceptions

AllNonPropagated(f) == \A i \in 1..Len(f.hist) : NonPropagatedFailure(f, i)

\* C1: a wrapped callable whose target raises a non-propagated exception on
\* attempt 1 and returns v on attempt 2 returns v to the caller after exactly
\* two executions, one debugger session and with restart_count = 1.
C1_RetryConvergence ==
    \A t \in Threads :
        LET f == inv[t]
        IN  ( /\ f.pc = "done"
              /\ Len(f.hist) >= 1
              /\ NonPropagatedFailure(f, 1)
              /\ (Len(f.hist) >= 2 => f.hist[2].out = "ret") )
            => ( /\ Len(f.hist) = 2
                 /\ f.result = Returned(f.hist[2].val)
                 /\ f.restart_count = 1
                 /\ f.sessions = 1 )

\* C2: with no active watcher, a wrapped callable whose target fails on every
\* attempt with a non-propagated exception reaches the debugger on every
\* attempt and never ends with an exception: the loop goes on to the next retry.
C2_NoWatcherDegradation ==
    \A t \in Threads :
        LET f == inv[t]
        IN  (f.pc # "idle" /\ f.watch_instance = None /\ AllNonPropagated(f))
            => ( /\ f.pc # "done"
                 /\ f.sessions = Len(f.hist)
                 /\ f.restart_count = IF f.pc \in {"loop", "call"}
                                      THEN Len(f.hist) ELSE Len(f.hist) - 1 )

\* C5: when an attempt of the target raises an exception of a propagated kind,
\* the caller observes that same exception, and no debugger session, refresh or
\* retry happens for it; raised on the first attempt, the target ran exactly
\* once with zero sessions, refreshes and retries.
C5_PropagatedBypass ==
    \A t \in Threads :
        LET f == inv[t]
            n == Len(f.hist)
        IN  ( /\ n >= 1
              /\ f.hist[n].out = "exc"
              /\ f.hist[n].cls \in f.callee.propagated_exceptions )
            => ( /\ f.pc = "done"
                 /\ f.result = Raised(f.hist[n].cls, n)
                 /\ f.sessions = n - 1
                 /\ f.refreshes = n - 1
                 /\ f.restart_count = n - 1 )

C5_Witness ==
    \E t \in Threads :
        /\ inv[t].pc = "done"
        /\ inv[t].hist = <<TargetRaised("KeyError")>>
        /\ "KeyError" \in inv[t].callee.propagated_exceptions
        /\ inv[t].result = Raised("KeyError", 1)

\* C9: the synchronous and the asynchronous wrapper, given the same keyword
\* arguments, the same watcher and the same sequence of target outcomes, end
\* with the same outcome after the same number of debugger sessions and
\* refresh calls.
C9_SyncAsyncEquivalent ==
    \A s, a \in Threads :
        ( /\ inv[s].pc = "done"
          /\ inv[a].pc = "done"
          /\ ~inv[s].callee.is_async
          /\ inv[a].callee.is_async
          /\ inv[s].callee.propagated_exceptions = inv[a].callee.propagated_exceptions
          /\ inv[s].watch_instance = inv[a].watch_instance
          /\ inv[s].hist = inv[a].hist )
        => ( /\ inv[s].result = inv[a].result
             /\ inv[s].sessions = inv[a].sessions
             /\ inv[s].refreshes = inv[a].refreshes )

\* What one invocation does when it runs alone, as a function of the outcomes
\* of its target: the result seen by the caller, the retries and the sessions.
RECURSIVE Alone(_, _, _, _, _)
Alone(w, watcher, hist, i, n) ==
    IF i > Len(hist)
    THEN [result |-> NoResult, restart_count |-> n, sessions |-> n]
    ELSE LET h == hist[i]
         IN  IF h.out = "ret"
             THEN [result |-> Returned(h.val), restart_count |-> n, sessions |-> n]
             ELSE IF ~IsException(h.cls) \/ h.cls \in w.propagated_exceptions
             THEN [result |-> Raised(h.cls, i), restart_count |-> n, sessions |-> n]
             ELSE IF ~w.is_async
             THEN [result |-> Raised("NameError", 0), restart_count |-> n, sessions |-> n]
             ELSE IF DEBUGGER = "pudb" /\ ~dep_available
             THEN [result |-> Raised("ImportError", 0), restart_count |-> n, sessions |-> n]
             ELSE IF watcher = None
             THEN [result |-> Raised("AttributeError", 0), restart_count |-> n,
                   sessions |-> n + 1]
             ELSE Alone(w, watcher, hist, i + 1, n + 1)

\* C10: the outcome of every invocation (result, retries, debugger sessions) is
\* the one it has when it runs alone, whatever other invocations do meanwhile,
\* and no invocation finds the shared flag EXIT_THIS_FRAME set at its loop test.
C10_InvocationIsolation ==
    \A t \in Threads :
        LET f == inv[t]
        IN  /\ f.pc = "done" =>
                [result |-> f.result, restart_count |-> f.restart_count,
                 sessions |-> f.sessions]
                    = Alone(f.callee, f.watch_instance, f.hist, 1, 0)
            /\ f.pc = "loop" => ~EXIT_THIS_FRAME

C10_Witness ==
    \E t, u \in Threads :
        /\ t # u
        /\ inv[t].pc = "debug"
        /\ inv[t].restart_count >= 1
        /\ inv[u].pc = "done"
        /\ inv[u].met
        /\ inv[u].restart_count >= 1
        /\ inv[u].result.kind = "return"

----------------------------------------------------------------------------
(* Properties of the debounce timers                                       *)

PendingTimers(h) == {i \in 1..Len(timers) : Pending(i) /\ timers[i].handler = h}

\* C3: with a non-zero debounce interval, the qualifying events of one watched
\* path that follow each other within the interval cause exactly one refresh,
\* one interval after the last of them: no timer starts a second refresh before
\* the next qualifying event, a refresh a timer starts is one interval after
\* the last qualifying event, and once more than an interval has passed since
\* that event its refresh has started.
C3_Debounce ==
    debounce # 0 =>
        \A h \in Filenames :
            LET x == handler[h]
            IN  /\ x.fired <= 1
                /\ x.fired >= 1 => x.fired_at = x.last_event + debounce
                /\ (x.last_event >= 0 /\ now > x.last_event + debounce) => x.fired = 1

\* C4: every watched path has at most one debounce timer that was started and
\* has neither fired nor been cancelled.
C4_OnePendingTimer ==
    \A h \in Filenames : Cardinality(PendingTimers(h)) <= 1

----------------------------------------------------------------------------
(* Properties of Watcher.refresh                                           *)

PatchRaised(e) == e.cf # None /\ e.pre = "ok" /\ e.patch = "raise"
AllSucceed(e) == e.cf # None /\ e.pre = "ok" /\ e.patch = "ok" /\ e.post = "ok"

\* C6: when the target's refresh() raises during Watcher.refresh(A), the
\* exception goes to the logger sink and does not leave Watcher.refresh, the
\* thread that called it runs on, and a later Watcher.refresh(B) of a
\* registered path B whose patch succeeds emits prerun, patches and emits
\* postrun.
C6_RefreshIsolation ==
    /\ \A i \in 1..Len(refresh_log) :
         PatchRaised(refresh_log[i]) =>
            /\ ~refresh_log[i].raised
            /\ refresh_log[i].events = <<"prerun", "patch", "log_exc">>
    /\ (\E i \in 1..Len(refresh_log) : PatchRaised(refresh_log[i])) =>
            refresher = "running"
    /\ \A i, j \in 1..Len(refresh_log) :
         ( /\ i < j
           /\ PatchRaised(refresh_log[i])
           /\ AllSucceed(refresh_log[j]) )
         => ( /\ refresh_log[j].events = <<"prerun", "patch", "postrun">>
              /\ ~refresh_log[j].raised )

C6_Witness ==
    \E i, j \in 1..Len(refresh_log) :
        /\ i < j
        /\ PatchRaised(refresh_log[i])
        /\ AllSucceed(refresh_log[j])
        /\ refresh_log[i].path # refresh_log[j].path
        /\ refresh_log[j].events = <<"prerun", "patch", "postrun">>

----------------------------------------------------------------------------
(* Properties of hot_restart_wrap                                          *)

IsWrapper(o) == o.kind \in {"wrapped", "wrapped_async"}

\* C7: hot_restart_wrap applied to a callable that hot_restart_wrap returned
\* returns that very callable and creates nothing; after any sequence of wrap
\* operations a call of any callable goes through at most one retry loop and
\* the marker of every wrapper was set exactly once.
C7_WrapIdempotent ==
    /\ (last_wrap.func # 0 /\ IsWrapper(objs[last_wrap.func])) =>
          (last_wrap.result = last_wrap.func /\ last_wrap.outcome = "same")
    /\ \A i \in 1..Len(objs) :
          /\ objs[i].loops <= 1
          /\ objs[i].mark_sets <= 1
          /\ IsWrapper(objs[i]) => (objs[i].marked /\ objs[i].mark_sets = 1)
          /\ IsWrapper(objs[i]) => ~IsWrapper(objs[objs[i].wraps])

C7_Witness ==
    /\ last_wrap.func # 0
    /\ IsWrapper(objs[last_wrap.func])
    /\ last_wrap.result = last_wrap.func
    /\ Len(objs) >= 4

----------------------------------------------------------------------------
(* Properties of _create_undead_traceback                                  *)

\* The traceback that starts at tb, read along tb_next.
RECURSIVE Chain(_, _)
Chain(heap, tb) ==
    IF tb = 0 THEN <<>>
    ELSE <<[frame |-> heap[tb].tb_frame, lineno |-> heap[tb].tb_lineno]>>
            \o Chain(heap, heap[tb].tb_next)

Reverse(q) == [i \in 1..Len(q) |-> q[Len(q) + 1 - i]]

NotWrapper(frame) == frame.f_code # WrapperCode

\* C8: the returned trace ends with the dead frames of the exception's trace,
\* same frames, same line numbers, same order, and the exception's traceback
\* objects are unchanged; before them come exactly the live frames, from the
\* caller upward, whose code is not the wrapper's, each once, outermost first
\* (the order of a traceback), and no live frame of the wrapper's code.
C8_HybridTrace ==
    trace_out.done =>
        LET dead == trace_in.dead
            kept == SelectSeq(trace_in.frames, NotWrapper)
            out == Chain(tb_heap, trace_out.tb)
            n == Len(out) - Len(dead)
        IN  /\ \A i \in 1..Len(dead) : tb_heap[i] = DeadHeap(dead)[i]
            /\ n = Len(kept)
            /\ \A i \in 1..Len(dead) :
                  out[n + i] = [frame |-> dead[i], lineno |-> dead[i].f_lineno]
            /\ \A i \in 1..n :
                  out[i] = [frame |-> Reverse(kept)[i], lineno |-> Reverse(kept)[i].f_lineno]
            /\ \A i \in 1..n : out[i].frame.f_code # WrapperCode

C8_Witness ==
    /\ trace_out.done
    /\ Len(trace_in.dead) = 2
    /\ Len(trace_in.frames) = 2
    /\ trace_in.frames[1].f_code = WrapperCode
    /\ trace_in.frames[2].f_code # WrapperCode
    /\ Len(Chain(tb_heap, trace_out.tb)) = 3

----------------------------------------------------------------------------
(* Properties of the retry loop with an active watcher                     *)

\* The attempts of f that failed with an exception the wrapper does not propagate.
NonPropagatedFailures(f) == {i \in 1..Len(f.hist) : NonPropagatedFailure(f, i)}

\* Every outcome of the target so far is a return or a non-propagated failure.
OnlyRecoverable(f) ==
    \A i \in 1..Len(f.hist) : f.hist[i].out = "ret" \/ NonPropagatedFailure(f, i)

\* C11: while an active watcher is set, a non-propagated exception of the
\* target never reaches the caller: every such failure has its debugger
\* session and is followed by a retry, and the invocation ends only with the
\* value the target returned.
C11_FailureNeverEscapes ==
    \A t \in Threads :
        LET f == inv[t]
            n == Len(f.hist)
        IN  (f.pc # "idle" /\ f.watch_instance # None /\ OnlyRecoverable(f))
            => ( /\ f.sessions = Cardinality(NonPropagatedFailures(f))
                 /\ f.pc = "done" =>
                       ( /\ n >= 1
                         /\ f.hist[n].out = "ret"
                         /\ f.result = Returned(f.hist[n].val) ) )

\* C12: a KeyboardInterrupt raised by an attempt of the target reaches the
\* caller, the same exception, with no debugger session, refresh or retry for
\* it, whatever propagate_keyboard_interrupt is; raised on the first attempt,
\* the target ran once with zero sessions, refreshes and retries.
C12_InterruptAlwaysPropagates ==
    \A t \in Threads :
        LET f == inv[t]
            n == Len(f.hist)
        IN  ( /\ n >= 1
              /\ f.hist[n].out = "exc"
              /\ f.hist[n].cls = "KeyboardInterrupt" )
            => ( /\ f.pc = "done"
                 /\ f.result = Raised("KeyboardInterrupt", n)
                 /\ f.sessions = n - 1
                 /\ f.refreshes = n - 1
                 /\ f.restart_count = n - 1 )

C12_Witness ==
    \E t, u \in Threads :
        /\ inv[t].pc = "done"
        /\ inv[t].hist = <<TargetRaised("KeyboardInterrupt")>>
        /\ ~inv[t].callee.propagate_keyboard_interrupt
        /\ inv[t].result = Raised("KeyboardInterrupt", 1)
        /\ inv[t].sessions = 0
        /\ inv[u].pc = "done"
        /\ inv[u].callee.propagate_keyboard_interrupt
        /\ inv[u].callee.is_async
        /\ Len(inv[u].hist) = 2
        /\ inv[u].result = Raised("KeyboardInterrupt", 2)

\* C13: for every non-propagated failure of an attempt exactly one debugger
\* session is dispatched, the watcher's refresh(module_file_path) is called
\* once and only after that session ended, and the next attempt starts only
\* after that refresh returned; whenever an attempt starts, the retry counter
\* equals the number of completed debugger sessions of the invocation.
C13_FailureOrdering ==
    \A t \in Threads :
        LET f == inv[t]
            k == Cardinality(NonPropagatedFailures(f))
        IN  (f.pc # "idle" /\ f.watch_instance # None) =>
              /\ f.sessions = k
              /\ f.pc = "debug" => (f.refreshes = k - 1 /\ f.restart_count = k - 1)
              /\ f.pc = "refresh" => (f.refreshes = k - 1 /\ f.restart_count = k - 1)
              /\ f.pc \in {"loop", "call", "done"} => f.refreshes = k
              /\ f.pc \in {"loop", "call"} =>
                    (f.restart_count = f.sessions /\ k = Len(f.hist))
              /\ (f.refreshes >= 1 /\ f.pc # "refresh") =>
                    (last_refresh.path = module_file_path)

----------------------------------------------------------------------------
(* Properties of the hooks and the registry lookup of Watcher.refresh      *)

\* The positions of event ev in the events of one execution of refresh.
Positions(e, ev) == {i \in 1..Len(e.events) : e.events[i] = ev}

\* C14: in Watcher.refresh of a registered path, prerun is emitted first and
\* before the patch operation is invoked; postrun is emitted only after the
\* patch operation returned; no postrun is emitted when a prerun subscriber or
\* the patch operation raised, and the patch operation is not invoked when a
\* prerun subscriber raised.
C14_HookOrdering ==
    \A i \in 1..Len(refresh_log) :
        LET e == refresh_log[i]
        IN  e.cf # None =>
              /\ Positions(e, "prerun") = {1}
              /\ Positions(e, "patch") \subseteq {2}
              /\ Positions(e, "postrun") \subseteq {3}
              /\ Positions(e, "postrun") # {} =>
                    (Positions(e, "patch") = {2} /\ e.pre = "ok" /\ e.patch = "ok")
              /\ (e.pre = "raise" \/ e.patch = "raise") => Positions(e, "postrun") = {}
              /\ e.pre = "raise" => Positions(e, "patch") = {}
              /\ (e.pre = "ok" /\ e.patch = "ok") => Positions(e, "postrun") = {3}

C14_Witness ==
    \E i, j \in 1..Len(refresh_log) :
        /\ refresh_log[i].cf # None
        /\ refresh_log[i].pre = "raise"
        /\ refresh_log[i].events = <<"prerun", "log_exc">>
        /\ refresh_log[j].cf # None
        /\ refresh_log[j].pre = "ok"
        /\ refresh_log[j].patch = "raise"
        /\ refresh_log[j].events = <<"prerun", "patch", "log_exc">>

\* A prerun or postrun subscriber raised during this execution of refresh.
HookRaised(e) ==
    /\ e.cf # None
    /\ \/ e.pre = "raise"
       \/ (e.pre = "ok" /\ e.patch = "ok" /\ e.post = "raise")

\* C15, as stated: an exception raised by a prerun or postrun subscriber
\* during Watcher.refresh(path) leaves Watcher.refresh and is not logged by it.
C15_HookExceptionPropagates ==
    \A i \in 1..Len(refresh_log) :
        HookRaised(refresh_log[i]) =>
            (refresh_log[i].raised /\ Positions(refresh_log[i], "log_exc") = {})

\* C15, amended: the try block of Watcher.refresh covers the hook emissions as
\* well as the patch operation: an exception raised by a prerun or postrun
\* subscriber is passed to the logger sink once, nothing else runs in that
\* refresh, and no exception leaves Watcher.refresh.
C15_HookExceptionLogged ==
    /\ \A i \in 1..Len(refresh_log) :
         LET e == refresh_log[i]
         IN  HookRaised(e) =>
               /\ ~e.raised
               /\ Positions(e, "log_exc") = {Len(e.events)}
               /\ e.pre = "raise" => e.events = <<"prerun", "log_exc">>
               /\ e.pre = "ok" => e.events = <<"prerun", "patch", "postrun", "log_exc">>
    /\ (\E i \in 1..Len(refresh_log) : HookRaised(refresh_log[i])) => refresher = "running"

C15_Witness ==
    \E i, j \in 1..Len(refresh_log) :
        /\ refresh_log[i].cf # None
        /\ refresh_log[i].pre = "ok"
        /\ refresh_log[i].patch = "ok"
        /\ refresh_log[i].post = "raise"
        /\ refresh_log[i].events = <<"prerun", "patch", "postrun", "log_exc">>
        /\ i < j
        /\ refresh_log[j].pre = "raise"
        /\ ~refresh_log[j].raised

\* The registry does not know the path of this execution of refresh.
RegistryMiss(e) == e.cf = None

\* C16: Watcher.refresh(path) for a path the registry does not know passes
\* exactly one diagnostic to the logger sink, emits neither prerun nor postrun,
\* invokes no patch operation and returns without raising; the calling thread
\* runs on and nothing is scheduled to retry the refresh (no timer exists).
C16_RegistryMiss ==
    /\ \A i \in 1..Len(refresh_log) :
         LET e == refresh_log[i]
         IN  RegistryMiss(e) =>
               /\ e.events = <<"log_miss">>
               /\ Positions(e, "prerun") = {}
               /\ Positions(e, "patch") = {}
               /\ Positions(e, "postrun") = {}
               /\ ~e.raised
    /\ (\E i \in 1..Len(refresh_log) : RegistryMiss(refresh_log[i])) =>
          /\ refresher = "running"
          /\ timers = <<>>
          /\ \A h \in Filenames : handler[h].timer = 0
    /\ (last_refresh.path # None /\ RegistryMiss(refresh_log[Len(refresh_log)])) =>
          ~last_refresh.patched

C16_Witness ==
    \E i, j \in 1..Len(refresh_log) :
        /\ i < j
        /\ RegistryMiss(refresh_log[i])
        /\ refresh_log[i].events = <<"log_miss">>
        /\ refresh_log[j].cf # None
        /\ refresh_log[j].path # refresh_log[i].path
        /\ refresher = "running"

----------------------------------------------------------------------------
(* Properties of the dead-frame count                                      *)

\* The deepest dead frame runs the wrapper's code.
DeepestIsWrapper == trace_in.dead[Len(trace_in.dead)].f_code = trace_in.wrapper_code

----------------------------------------------------------------------------
(* Properties of the event filter of on_modified                           *)

\* What a step does to the handler of h that only a filesystem event does: it
\* records a modification time, starts a timer for h, cancels h's waiting
\* timer, or refreshes from the observer thread.
EventEffect(h) ==
    \/ handler'[h].mtime # handler[h].mtime
    \/ handler'[h].last_event # handler[h].last_event
    \/ /\ Len(timers') > Len(timers)
       /\ timers'[Len(timers')].handler = h
    \/ \E i \in 1..Len(timers) :
          /\ timers[i].handler = h
          /\ timers[i].st = "waiting"
          /\ timers'[i].st = "cancelled"

\* C18: an event for a watched path whose modification time equals the
\* recorded one, and any event whose path is not the handler's normalized
\* path, changes neither the recorded modification time nor the timers of that
\* handler (none cancelled, none started) and refreshes nothing: whatever
\* does one of these is an event for the handler's normalized path that found
\* a modification time different from the recorded one.
C18_DuplicateGuard ==
    [][ \A h \in Filenames :
          EventEffect(h) =>
              /\ fs_mtime[handler[h].normalized_filename] # handler[h].mtime
              /\ dispatched'.h = h
              /\ dispatched'.src_path = handler[h].normalized_filename
              /\ handler'[h].mtime = fs_mtime[handler[h].normalized_filename] ]_vars

\* A duplicate notification reached a handler whose timer is waiting, and the
\* timer still waits with its deadline one interval after the recorded event.
C18_Witness ==
    /\ dispatched.h = WatchedFile
    /\ dispatched.src_path = handler[WatchedFile].normalized_filename
    /\ ~dispatched.qualified
    /\ handler[WatchedFile].timer # 0
    /\ Pending(handler[WatchedFile].timer)
    /\ timers[handler[WatchedFile].timer].deadline = handler[WatchedFile].last_event + debounce
    /\ now > handler[WatchedFile].last_event
    /\ Cardinality(PendingTimers(WatchedFile)) = 1

----------------------------------------------------------------------------
(* Properties of the threads that refresh, and of the debugger backends    *)

\* The threads the watcher owns: its observer thread and its timer threads.
WatcherThreads == {"observer", "timer"}

\* C19: every execution of the patch operation (Watcher.refresh calling the
\* target's refresh) runs on a thread the watcher owns, never on an
\* application thread, the refresh the wrapper requests after a debugging
\* session included.
C19_RefreshOnWatcherThread ==
    (last_refresh.path # None /\ last_refresh.patched) => last_refresh.by \in WatcherThreads

\* C20: whichever backend is configured, when its runtime dependency is
\* unavailable at the time _start_post_mortem is invoked, a breakpoint is
\* entered instead and no exception leaves _start_post_mortem: the failure
\* still gets its (breakpoint) session and the loop goes on to the refresh and
\* the next attempt.  Stated for the asynchronous wrapper, the one that
\* reaches _start_post_mortem.
C20_BackendFallback ==
    \A t \in Threads :
        LET f == inv[t]
        IN  ( /\ f.pc # "idle"
              /\ f.callee.is_async
              /\ ~dep_available
              /\ NonPropagatedFailures(f) # {} ) =>
              /\ StartPostMortem(DEBUGGER, dep_available) \in {"session", "breakpoint"}
              /\ f.result # Raised("ImportError", 0)
              /\ f.sessions = Cardinality(NonPropagatedFailures(f))

----------------------------------------------------------------------------
(* Properties of Watcher.stop                                              *)

\* A step in which a debounce timer of h starts a refresh.
TimerStartsRefresh(h) == handler'[h].fired = handler[h].fired + 1

\* C21: when watching stops, the pending debounce timer of every watched path
\* is destroyed with it: once stop() has returned, no debounce timer starts a
\* Watcher.refresh.
C21_StopDestroysTimers ==
    [][ observer = "stopped" => \A h \in Filenames : ~TimerStartsRefresh(h) ]_vars

----------------------------------------------------------------------------
(* Properties of the loop's exits                                          *)

\* C22: no operation sets EXIT_THIS_FRAME to true, so an invocation leaves its
\* loop only when the target returned or an exception left the wrapper; there
\* is no retry limit: with an active watcher, a target that fails on every
\* attempt with a non-propagated exception and sessions that always end, the
\* invocation does not terminate and its retry counter follows the number of
\* failed attempts.
C22_NoExitNoLimit ==
    /\ ~EXIT_THIS_FRAME
    /\ \A t \in Threads :
         LET f == inv[t]
             n == Len(f.hist)
         IN  /\ f.pc = "done" =>
                   \/ /\ n >= 1
                      /\ f.hist[n].out = "ret"
                      /\ f.result = Returned(f.hist[n].val)
                   \/ f.result.kind = "raise"
             /\ (f.pc # "idle" /\ f.watch_instance # None /\ AllNonPropagated(f)) =>
                   /\ f.pc # "done"
                   /\ f.pc \in {"loop", "call"} => f.restart_count = n
                   /\ f.pc \in {"debug", "refresh"} => f.restart_count = n - 1

====
